---- MODULE Spec2Model ----
(***************************************************************************)
(* Model of the dialogue workflow engine of backend/workflow_engine.py and *)
(* of its generation collaborator backend/llm_integration.py, of the site  *)
(* crawler of backend/document_processor.py and of the two knowledge       *)
(* endpoints of backend/app.py.                                            *)
(*                                                                         *)
(* Python values are represented as follows.                               *)
(*   str used as text  : a sequence of characters; a fixed word that no    *)
(*                       operation of the program splits (a fixed reply,   *)
(*                       the key user_message) is a single element         *)
(*   str used as a tag : a TLA+ string (node ids, node types, edge         *)
(*                       condition tags, condition labels)                 *)
(*   None              : the tag None among tags, <<>> among optionals     *)
(*   Optional[x]       : <<>> (None) or <<x>>                              *)
(*   dict              : a function on its keys; the context dict, whose   *)
(*                       iteration order matters, is a sequence of         *)
(*                       [key, value] items in insertion order             *)
(***************************************************************************)
EXTENDS Integers, Sequences, FiniteSets, TLC

VARIABLES
    nodes,              \* self.nodes: node records in insertion order
    edges,              \* self.edges: the edge list
    llm_integration,    \* self.llm_integration: "none" or the provider
    start_node_id,      \* self.start_node_id
    message,            \* process_message argument
    conversation_history, \* process_message argument: <<>> (None) or <<list>>
    context,            \* the context dict of the call, <<>> before it exists
    ctx_arg,            \* the context argument: <<>> (None) or <<dict>>
    pc,                 \* position of the call
    current_node_id,    \* local of process_message
    response,           \* local of process_message: <<>> is None
    visited_nodes,      \* local of process_message
    result,             \* the returned dict, <<>> before the return
    iterations,         \* log: number of times the loop body was entered
    processed,          \* log: [id, produced] of each node processed, in
                        \* order; produced is the response the node set,
                        \* <<>> if it set none
    port_calls,         \* log: the generate_response calls made, in order,
                        \* each with its arguments and what happened in it
    pages,              \* the site crawl_website reads: what requests.get
                        \* gives for each URL, and the hrefs of its page
    max_depth,          \* crawl_website argument
    crawl_visited,      \* the visited list shared by the recursive calls
    frames,             \* the call stack of crawl_website, innermost last
    crawled,            \* what the outermost call returned, <<>> before
    knowledge_sources,  \* the committed rows of table knowledge_sources
    db_source,          \* the KnowledgeSource object of the request being
                        \* served, <<>> while there is none
    request,            \* the request being served, <<>> between requests
    replies             \* log: what each request served so far was
                        \* answered with

vars == <<nodes, edges, llm_integration, start_node_id, message,
          conversation_history, context, ctx_arg, pc, current_node_id, response, visited_nodes, result,
          iterations, processed, port_calls,
          pages, max_depth, crawl_visited, frames, crawled,
          knowledge_sources, db_source, request, replies>>

\* the state of a crawl
crawlVars == <<pages, max_depth, crawl_visited, frames, crawled>>

\* the state of the knowledge endpoints
knowledgeVars == <<knowledge_sources, db_source, request, replies>>

\* no request was received
NoRequests ==
    /\ knowledge_sources = <<>>
    /\ db_source = <<>>
    /\ request = <<>>
    /\ replies = <<>>

\* no crawl is under way
NoCrawl ==
    /\ pages = <<>>
    /\ max_depth = 0
    /\ crawl_visited = <<>>
    /\ frames = <<>>
    /\ crawled = <<>>

----------------------------------------------------------------------------
(* Bounds of the model *)

MaxEdges == 2

MaxPieces == 3

MaxKeywords == 2

MaxInterleavedEdges == 1

----------------------------------------------------------------------------
(* Python basics *)

None == "None"

Some(x) == <<x>>

EmptyDict == <<>>

\* dict.get(key, default)
Get(d, key, default) == IF key \in DOMAIN d THEN d[key] ELSE default

\* truthiness of an id-valued expression (None and "" are falsy)
Truthy(id) == id # None /\ id # ""

\* the upper-case letters the model uses and their lower-case forms
UpperLetters == <<"B", "E", "H", "I", "L", "O", "S", "Y">>

LowerLetters == <<"b", "e", "h", "i", "l", "o", "s", "y">>

LowerCharCaseSensitive(c) == c

\* str.lower() on one character
LowerChar(c) ==
    IF \E i \in 1..Len(UpperLetters) : UpperLetters[i] = c
    THEN LowerLetters[CHOOSE i \in 1..Len(UpperLetters) : UpperLetters[i] = c]
    ELSE c

Lower(s) == [i \in 1..Len(s) |-> LowerChar(s[i])]

\* the `in` operator on two strings: substring containment
Contains(s, sub) ==
    \E i \in 0..(Len(s) - Len(sub)) : SubSeq(s, i + 1, i + Len(sub)) = sub

\* str.replace(old, new) for a non-empty old: every non-overlapping
\* occurrence, scanning left to right
RECURSIVE Replace(_, _, _)
Replace(s, old, new) ==
    IF Len(s) < Len(old) THEN s
    ELSE IF SubSeq(s, 1, Len(old)) = old
         THEN new \o Replace(SubSeq(s, Len(old) + 1, Len(s)), old, new)
         ELSE <<Head(s)>> \o Replace(Tail(s), old, new)

\* str(value) of a context value: text stays, an int prints its digit
Str(v) == IF v.t = "str" THEN v.s ELSE <<CASE v.n = 0 -> "0" [] v.n = 1 -> "1" [] OTHER -> "2">>

StrV(s) == [t |-> "str", s |-> s]

IntV(n) == [t |-> "int", n |-> n]

\* the f-string "{" + key + "}"
Placeholder(key) == <<"{">> \o key \o <<"}">>

\* the key "user_message"
UserMessageKey == <<"user_message">>

----------------------------------------------------------------------------
(* The context dict: items [key, value] in insertion order, keys unique *)

CtxKeys(ctx) == {ctx[i].key : i \in 1..Len(ctx)}

\* context.get(key): <<>> (None) or <<value>>
CtxGet(ctx, key) ==
    IF key \in CtxKeys(ctx)
    THEN Some(ctx[CHOOSE i \in 1..Len(ctx) : ctx[i].key = key].value)
    ELSE <<>>

CtxSetKeepExisting(ctx, key, value) ==
    IF key \in CtxKeys(ctx) THEN ctx
    ELSE Append(ctx, [key |-> key, value |-> value])

\* context[key] = value: an existing key keeps its position, a new one is
\* appended
CtxSet(ctx, key, value) ==
    IF key \in CtxKeys(ctx)
    THEN [i \in 1..Len(ctx) |->
            IF ctx[i].key = key THEN [key |-> key, value |-> value] ELSE ctx[i]]
    ELSE Append(ctx, [key |-> key, value |-> value])

----------------------------------------------------------------------------
(* Fixed replies of the engine *)

NoWorkflowResponse == <<"Sorry, this bot doesn't have a configured workflow.">>

DefaultResponse == <<"I'm not sure how to respond to that.">>

AiUnavailableResponse == <<"AI processing is not available.">>

AiErrorResponse == <<"Sorry, I encountered an error while processing your request.">>

DefaultSystemPrompt == <<"You are a helpful assistant.">>

----------------------------------------------------------------------------
(* Template substitution: the loop `for key, value in context.items():     *)
(* template = template.replace("{key}", str(value))`                       *)

RECURSIVE ReplaceVariables(_, _)
ReplaceVariables(template, ctx) ==
    IF ctx = <<>> THEN template
    ELSE ReplaceVariables(
             Replace(template, Placeholder(Head(ctx).key), Str(Head(ctx).value)),
             Tail(ctx))

\* WorkflowEngine._process_message_node
ProcessMessageNode(node, ctx) ==
    ReplaceVariables(Get(Get(node, "data", EmptyDict), "label", <<>>), ctx)

----------------------------------------------------------------------------
(* Condition evaluation *)

\* re.compile fails on the pattern (re.error): of the patterns the model
\* uses, the ones with an unclosed group
ReError(pattern) ==
    Cardinality({i \in 1..Len(pattern) : pattern[i] = "("})
        # Cardinality({i \in 1..Len(pattern) : pattern[i] = ")"})

\* re.search(pattern, message, re.IGNORECASE) for a pattern of plain letters
ReSearch(pattern, msg) == Contains(Lower(msg), Lower(pattern))

\* `for keyword in keywords: if keyword.lower() in message.lower()`
AnyKeyword(keywords, msg) ==
    \E i \in 1..Len(keywords) : Contains(Lower(msg), Lower(keywords[i]))

RECURSIVE LastIntent(_, _)
LastIntent(intents, msg) ==
    IF intents = <<>> THEN "default"
    ELSE IF AnyKeyword(intents[Len(intents)].keywords, msg)
         THEN intents[Len(intents)].name
    ELSE LastIntent(SubSeq(intents, 1, Len(intents) - 1), msg)

\* the intent loop: name of the first intent, in the order of the mapping,
\* one of whose keywords occurs in the message; "default" if none
RECURSIVE FirstIntent(_, _)
FirstIntent(intents, msg) ==
    IF intents = <<>> THEN "default"
    ELSE IF AnyKeyword(Head(intents).keywords, msg) THEN Head(intents).name
    ELSE FirstIntent(Tail(intents), msg)

DefaultConditionTypeNone == None

\* the strategy of a node whose data names none: the default of line 203
DefaultConditionType == "keyword"

\* the label of line 240, reached when no strategy branch was taken
FallThroughLabel == "default"

ExpectedValueOrEmptyText(node_data) ==
    IF "value" \in DOMAIN node_data THEN Some(node_data["value"])
    ELSE Some(StrV(<<>>))

\* node_data.get("value"): <<>> (None) when the node names no value
ExpectedValue(node_data) ==
    IF "value" \in DOMAIN node_data THEN Some(node_data["value"]) ELSE <<>>

\* the texts of two values agree once both are put in lower case
EqualIgnoringCase(a, b) ==
    IF a # <<>> /\ b # <<>> /\ a[1].t = "str" /\ b[1].t = "str"
    THEN Lower(a[1].s) = Lower(b[1].s)
    ELSE a = b

\* `==` on two optional values of the context's kinds (str, int, None)
PyEq(a, b) == a = b

EvaluateConditionRaisesOnUnknown(node, msg, ctx) ==
    LET node_data == Get(node, "data", EmptyDict)
        condition_type == Get(node_data, "conditionType", DefaultConditionType)
        pattern == Get(node_data, "pattern", <<>>)
    IN  \/ condition_type = "regex" /\ pattern # <<>> /\ ReError(pattern)
        \/ condition_type \notin {"keyword", "regex", "intent", "variable"}

\* WorkflowEngine._evaluate_condition raises (re.error leaves re.search)
EvaluateConditionRaises(node, msg, ctx) ==
    LET node_data == Get(node, "data", EmptyDict)
        condition_type == Get(node_data, "conditionType", DefaultConditionType)
        pattern == Get(node_data, "pattern", <<>>)
    IN  condition_type = "regex" /\ pattern # <<>> /\ ReError(pattern)

\* WorkflowEngine._evaluate_condition: the label it returns
EvaluateCondition(node, msg, ctx) ==
    LET node_data == Get(node, "data", EmptyDict)
        condition_type == Get(node_data, "conditionType", DefaultConditionType)
    IN  CASE condition_type = "keyword" ->
               IF AnyKeyword(Get(node_data, "keywords", <<>>), msg)
               THEN "true" ELSE "false"
          [] condition_type = "regex" ->
               LET pattern == Get(node_data, "pattern", <<>>)
               IN  IF pattern # <<>> /\ ReSearch(pattern, msg)
                   THEN "true" ELSE "false"
          [] condition_type = "intent" ->
               FirstIntent(Get(node_data, "intents", <<>>), msg)
          [] condition_type = "variable" ->
               LET variable_name == Get(node_data, "variable", <<>>)
                   variable_value == CtxGet(ctx, variable_name)
                   expected_value == ExpectedValue(node_data)
               IN  IF PyEq(variable_value, expected_value) THEN "true" ELSE "false"
          [] OTHER -> FallThroughLabel

----------------------------------------------------------------------------
(* The generation collaborator, LLMIntegration.generate_response *)

Completion == <<"completion">>

\* what can happen inside one call, per provider
PortOutcomes(provider) ==
    CASE provider = "openai" -> {"ok", "api_exception", "import_error"}
      [] provider = "anthropic" -> {"ok", "status_not_200", "request_exception"}
      [] provider = "none" -> {"no_call"}
      [] OTHER -> {"unsupported"}

\* the text "Error generating response: ..." built from the failure
ErrorText(outcome) == <<"Error generating response: ">> \o <<outcome>>

\* the call raises: the openai module cannot be imported (the import is
\* outside the try), or the provider is neither openai nor anthropic
GenerateResponseRaises(provider, outcome) ==
    \/ provider \notin {"openai", "anthropic"}
    \/ provider = "openai" /\ outcome = "import_error"

\* the text the call returns when it does not raise
GenerateResponse(provider, outcome) ==
    IF outcome = "ok" THEN Completion ELSE ErrorText(outcome)

ProcessAiNodeLeak(node, llm, outcome) ==
    IF llm = "none" THEN AiUnavailableResponse ELSE GenerateResponse(llm, outcome)

ProcessAiNodeUnguarded(node, llm, outcome) ==
    IF GenerateResponseRaises(llm, outcome) THEN AiErrorResponse
    ELSE GenerateResponse(llm, outcome)

\* WorkflowEngine._process_ai_node: the response it returns
ProcessAiNode(node, llm, outcome) ==
    IF llm = "none" THEN AiUnavailableResponse
    ELSE IF GenerateResponseRaises(llm, outcome) THEN AiErrorResponse
    ELSE GenerateResponse(llm, outcome)

\* the system prompt _process_ai_node passes to the port
RenderedSystemPrompt(node, ctx) ==
    ReplaceVariables(
        Get(Get(node, "data", EmptyDict), "systemPrompt", DefaultSystemPrompt), ctx)

----------------------------------------------------------------------------
(* Inputs: the workflow_data handed to the constructor, the message, the   *)
(* context argument, the collaborator                                      *)

\* the ids nodes take, in the order of the node list
IdPool == <<"1", "2">>

\* an id no node has
Dangling == "9"

NodeKinds ==
    {"start", "message", "keyword", "badregex", "unknown", "ai", "other"}

\* node data per kind; the label of a message node names its position
NodeData(kind, i) ==
    CASE kind = "message" -> [label |-> <<IdPool[i], "{", "n", "}">>]
      [] kind = "keyword" ->
           [conditionType |-> "keyword", keywords |-> << <<"h", "i">> >>]
      [] kind = "badregex" -> [conditionType |-> "regex", pattern |-> <<"(">>]
      [] kind = "unknown" -> [conditionType |-> "sentiment"]
      [] kind = "ai" -> [systemPrompt |-> <<"{", "n", "}", "?">>]
      [] OTHER -> [label |-> <<"Start">>]

NodeType(kind) ==
    CASE kind \in {"keyword", "badregex", "unknown"} -> "condition"
      [] kind = "other" -> "note"
      [] OTHER -> kind

\* position falsy, if any (0: none), carries the empty id: the first
\* position, or a later one whose node is typed start (the constructor reads
\* the ids of the first node and of the nodes typed start only)
NodeId(i, falsy) == IF i = falsy THEN "" ELSE IdPool[i]

\* the positions that may carry the empty id in a list of these kinds
FalsyPositions(kinds) ==
    {0, 1} \cup {i \in 2..Len(kinds) : kinds[i] = "start"}

NodeLists ==
    UNION {
        UNION {
            {[i \in 1..n |-> [id |-> NodeId(i, falsy), type |-> NodeType(kinds[i]),
                              data |-> NodeData(kinds[i], i)]] :
                falsy \in FalsyPositions(kinds)}
            : kinds \in [1..n -> NodeKinds]}
        : n \in 0..Len(IdPool)}

EdgeTags == {None, "true", "default"}

\* an edge without tag has no data entry at all
Edge(s, t, tag) ==
    IF tag = None THEN [source |-> s, target |-> t]
    ELSE [source |-> s, target |-> t, data |-> [condition |-> tag]]

NodeIds(ns) == {ns[i].id : i \in 1..Len(ns)}

HasType(ns, type) == \E i \in 1..Len(ns) : ns[i].type = type

\* the edges a node list admits: any source and target among its ids, a
\* target may also dangle; the tag "true" is tried on the edges that leave a
\* condition node, the only ones whose tag the engine compares with a label
EdgesOf(ns) ==
    {Edge(ns[i].id, t, tag) :
        i \in 1..Len(ns), t \in NodeIds(ns) \cup {Dangling}, tag \in EdgeTags}
    \ {Edge(ns[i].id, t, "true") :
        i \in {j \in 1..Len(ns) : ns[j].type # "condition"},
        t \in NodeIds(ns) \cup {Dangling}}

PositionOf(ns, id) == CHOOSE i \in 1..Len(ns) : ns[i].id = id

\* edge lists of at most MaxEdges edges; the engine only ever compares the
\* positions of edges that share a source, so the lists are taken with the
\* sources in node order
EdgeLists(ns) ==
    UNION {
        {es \in [1..k -> EdgesOf(ns)] :
            \A i \in 1..k : \A j \in i..k :
                PositionOf(ns, es[i].source) <= PositionOf(ns, es[j].source)}
        : k \in 0..MaxEdges}

\* the workflow_data of a node list and an edge list
WorkflowData(ns, es) == [nodes |-> ns, edges |-> es]

Messages == {<<"H", "i">>, <<"y", "o">>}

\* no context, or one that already holds a variable and an inbound-message
\* key left by an earlier call
ContextArgs ==
    {<<>>,
     Some(<<[key |-> <<"n">>, value |-> StrV(<<"S">>)],
            [key |-> UserMessageKey, value |-> StrV(<<"o", "l", "d">>)]>>)}

Collaborators == {"none", "openai", "anthropic", "other"}

\* an input no node of the graph reads takes one value only: the message
\* without a keyword condition, the collaborator without an ai node, the
\* context argument when no node renders a template (the graphs without a
\* usable start node excepted)
MessagesFor(ns) ==
    IF \E i \in 1..Len(ns) : Get(ns[i].data, "conditionType", None) = "keyword"
    THEN Messages ELSE {<<"H", "i">>}

ContextArgsFor(ns) ==
    IF HasType(ns, "message") \/ HasType(ns, "ai") \/ ns = <<>> \/ ns[1].id = ""
    THEN ContextArgs ELSE {<<>>}

CollaboratorsFor(ns) == IF HasType(ns, "ai") THEN Collaborators ELSE {"none"}

----------------------------------------------------------------------------
(* WorkflowEngine.__init__ *)

\* the id of the first node typed start, else None
RECURSIVE FirstStart(_)
FirstStart(ns) ==
    IF ns = <<>> THEN None
    ELSE IF Get(Head(ns), "type", None) = "start" THEN Head(ns).id
    ELSE FirstStart(Tail(ns))

ResolveStart(ns) ==
    IF ~Truthy(FirstStart(ns)) /\ ns # <<>> THEN ns[1].id ELSE FirstStart(ns)

Init ==
    \E ns \in NodeLists :
    \E es \in EdgeLists(ns), msg \in MessagesFor(ns), ca \in ContextArgsFor(ns),
       llm \in CollaboratorsFor(ns) :
    LET wd == WorkflowData(ns, es) IN
        /\ nodes = wd.nodes
        /\ edges = wd.edges
        /\ llm_integration = llm
        /\ start_node_id = ResolveStart(wd.nodes)
        /\ message = msg
        /\ conversation_history = <<>>
        /\ ctx_arg = ca
        /\ context = <<>>
        /\ pc = "ready"
        /\ current_node_id = None
        /\ response = <<>>
        /\ visited_nodes = {}
        /\ result = <<>>
        /\ iterations = 0
        /\ processed = <<>>
        /\ port_calls = <<>>
        /\ NoCrawl
        /\ NoRequests

----------------------------------------------------------------------------
(* WorkflowEngine.process_message *)

HasNode(id) == \E i \in 1..Len(nodes) : nodes[i].id = id

\* self.nodes.get(id), for an id HasNode accepts
NodeOf(id) == nodes[CHOOSE i \in 1..Len(nodes) : nodes[i].id = id]

Min(S) == CHOOSE x \in S : \A y \in S : x <= y

EdgeCondition(edge) == Get(Get(edge, "data", EmptyDict), "condition", None)

ConditionNextIgnoresLabel(es, cur, label) ==
    LET hits == {i \in 1..Len(es) : Get(es[i], "source", None) = cur}
    IN  IF hits = {} THEN None ELSE Get(es[Min(hits)], "target", None)

\* the edge loop of a condition node: target of the first edge from cur whose
\* tag is the label or "default"
ConditionNext(es, cur, label) ==
    LET hits == {i \in 1..Len(es) :
                    /\ Get(es[i], "source", None) = cur
                    /\ (EdgeCondition(es[i]) = label \/ EdgeCondition(es[i]) = "default")}
    IN  IF hits = {} THEN None ELSE Get(es[Min(hits)], "target", None)

UnconditionalNextUntagged(es, cur) ==
    LET hits == {i \in 1..Len(es) :
                    Get(es[i], "source", None) = cur /\ EdgeCondition(es[i]) = None}
    IN  IF hits = {} THEN None ELSE Get(es[Min(hits)], "target", None)

\* the edge loop of every other node: target of the first edge from cur
UnconditionalNext(es, cur) ==
    LET hits == {i \in 1..Len(es) : Get(es[i], "source", None) = cur}
    IN  IF hits = {} THEN None ELSE Get(es[Min(hits)], "target", None)

LoopGuardNoVisited == Truthy(current_node_id)

\* the while condition
LoopGuard == Truthy(current_node_id) /\ current_node_id \notin visited_nodes

\* lines 118-125: the dict returned after the loop
Returned(resp, ctx) ==
    Some([response |-> IF resp = <<>> THEN DefaultResponse ELSE resp[1],
          context |-> ctx])

\* lines 51-55: no nodes or no start node
ProcessMessageNoWorkflow ==
    /\ pc = "ready"
    /\ (nodes = <<>> \/ ~Truthy(start_node_id))
    /\ result' = Some([response |-> NoWorkflowResponse,
                       context |-> IF ctx_arg = <<>> THEN <<>> ELSE ctx_arg[1]])
    /\ pc' = "returned"
    /\ UNCHANGED <<crawlVars, knowledgeVars, nodes, edges, llm_integration, start_node_id, message,
                   conversation_history, context,
                   ctx_arg, current_node_id, response, visited_nodes, iterations,
                   processed, port_calls>>

\* lines 57-69: the context gets the message, the locals are initialised
ProcessMessageBegin ==
    /\ pc = "ready"
    /\ ~(nodes = <<>> \/ ~Truthy(start_node_id))
    /\ context' = CtxSet(IF ctx_arg = <<>> THEN <<>> ELSE ctx_arg[1],
                         UserMessageKey, StrV(message))
    /\ current_node_id' = start_node_id
    /\ response' = <<>>
    /\ visited_nodes' = {}
    /\ pc' = "loop"
    /\ UNCHANGED <<crawlVars, knowledgeVars, nodes, edges, llm_integration, start_node_id, message,
                   conversation_history, ctx_arg,
                   result, iterations, processed, port_calls>>

\* the while condition is false: lines 118-125
LoopExit ==
    /\ pc = "loop"
    /\ ~LoopGuard
    /\ result' = Returned(response, context)
    /\ pc' = "returned"
    /\ UNCHANGED <<crawlVars, knowledgeVars, nodes, edges, llm_integration, start_node_id, message,
                   conversation_history, context,
                   ctx_arg, current_node_id, response, visited_nodes, iterations,
                   processed, port_calls>>

StepMissingNodeRaises ==
    /\ pc = "loop"
    /\ LoopGuard
    /\ ~HasNode(current_node_id)
    /\ visited_nodes' = visited_nodes \cup {current_node_id}
    /\ iterations' = iterations + 1
    /\ pc' = "raised"
    /\ UNCHANGED <<crawlVars, knowledgeVars, nodes, edges, llm_integration, start_node_id, message,
                   conversation_history, context,
                   ctx_arg, current_node_id, response, result, processed, port_calls>>

\* lines 73-78: the current id names no node; break, then lines 118-125
StepMissingNode ==
    /\ pc = "loop"
    /\ LoopGuard
    /\ ~HasNode(current_node_id)
    /\ visited_nodes' = visited_nodes \cup {current_node_id}
    /\ iterations' = iterations + 1
    /\ result' = Returned(response, context)
    /\ pc' = "returned"
    /\ UNCHANGED <<crawlVars, knowledgeVars, nodes, edges, llm_integration, start_node_id, message,
                   conversation_history, context,
                   ctx_arg, current_node_id, response, processed, port_calls>>

EnterNoMark ==
    /\ pc = "loop"
    /\ LoopGuard
    /\ HasNode(current_node_id)
    /\ visited_nodes' = visited_nodes
    /\ iterations' = iterations + 1

\* what every iteration that finds its node does to the logs and the set
Enter ==
    /\ pc = "loop"
    /\ LoopGuard
    /\ HasNode(current_node_id)
    /\ visited_nodes' = visited_nodes \cup {current_node_id}
    /\ iterations' = iterations + 1

AssignKeepFirst(pending, produced) == IF pending = <<>> THEN Some(produced) ELSE pending

\* `response = ...`: the assignment replaces whatever was pending
Assign(pending, produced) == Some(produced)

Logged(id, produced) == [id |-> id, produced |-> produced]

\* lines 83-85, 109-116
StepMessage ==
    /\ Enter
    /\ Get(NodeOf(current_node_id), "type", "") = "message"
    /\ LET produced == ProcessMessageNode(NodeOf(current_node_id), context)
       IN  /\ response' = Assign(response, produced)
           /\ processed' = Append(processed, Logged(current_node_id, Some(produced)))
    /\ current_node_id' = UnconditionalNext(edges, current_node_id)
    /\ UNCHANGED <<crawlVars, knowledgeVars, nodes, edges, llm_integration, start_node_id, message,
                   conversation_history, context,
                   ctx_arg, pc, result, port_calls>>

StepConditionClearsResponse ==
    /\ Enter
    /\ Get(NodeOf(current_node_id), "type", "") = "condition"
    /\ IF EvaluateConditionRaises(NodeOf(current_node_id), message, context)
       THEN /\ pc' = "raised"
            /\ UNCHANGED current_node_id
       ELSE /\ current_node_id' =
                   ConditionNext(edges, current_node_id,
                       EvaluateCondition(NodeOf(current_node_id), message, context))
            /\ UNCHANGED pc
    /\ response' = <<>>
    /\ processed' = Append(processed, Logged(current_node_id, <<>>))
    /\ UNCHANGED <<crawlVars, knowledgeVars, nodes, edges, llm_integration, start_node_id, message,
                   conversation_history, context,
                   ctx_arg, result, port_calls>>

\* lines 87-103; an exception of _evaluate_condition leaves process_message
StepCondition ==
    /\ Enter
    /\ Get(NodeOf(current_node_id), "type", "") = "condition"
    /\ IF EvaluateConditionRaises(NodeOf(current_node_id), message, context)
       THEN /\ pc' = "raised"
            /\ UNCHANGED current_node_id
       ELSE /\ current_node_id' =
                   ConditionNext(edges, current_node_id,
                       EvaluateCondition(NodeOf(current_node_id), message, context))
            /\ UNCHANGED pc
    /\ processed' = Append(processed, Logged(current_node_id, <<>>))
    /\ UNCHANGED <<crawlVars, knowledgeVars, nodes, edges, llm_integration, start_node_id, message,
                   conversation_history, context,
                   ctx_arg, response, result, port_calls>>

PortCallRawPrompt(node, msg, history, ctx, llm, outcome) ==
    [prompt |-> msg,
     conversation_history |-> history,
     system_prompt |-> Get(Get(node, "data", EmptyDict), "systemPrompt",
                           DefaultSystemPrompt),
     model |-> Get(Get(node, "data", EmptyDict), "model", None),
     temperature |-> Get(Get(node, "data", EmptyDict), "temperature", "0.7"),
     outcome |-> outcome,
     raised |-> GenerateResponseRaises(llm, outcome)]

\* one generate_response call: its arguments, and what happened in it
PortCall(node, msg, history, ctx, llm, outcome) ==
    [prompt |-> msg,
     conversation_history |-> history,
     system_prompt |-> RenderedSystemPrompt(node, ctx),
     model |-> Get(Get(node, "data", EmptyDict), "model", None),
     temperature |-> Get(Get(node, "data", EmptyDict), "temperature", "0.7"),
     outcome |-> outcome,
     raised |-> GenerateResponseRaises(llm, outcome)]

\* lines 105-107, 109-116
StepAi ==
    /\ Enter
    /\ Get(NodeOf(current_node_id), "type", "") = "ai"
    /\ \E outcome \in PortOutcomes(llm_integration) :
          LET produced == ProcessAiNode(NodeOf(current_node_id), llm_integration, outcome)
          IN  /\ response' = Assign(response, produced)
              /\ processed' = Append(processed, Logged(current_node_id, Some(produced)))
              /\ port_calls' =
                    IF llm_integration = "none" THEN port_calls
                    ELSE Append(port_calls,
                                PortCall(NodeOf(current_node_id), message,
                                         conversation_history, context,
                                         llm_integration, outcome))
    /\ current_node_id' = UnconditionalNext(edges, current_node_id)
    /\ UNCHANGED <<crawlVars, knowledgeVars, nodes, edges, llm_integration, start_node_id, message,
                   conversation_history, context,
                   ctx_arg, pc, result>>

StepOtherHalts ==
    /\ Enter
    /\ Get(NodeOf(current_node_id), "type", "") \notin {"message", "condition", "ai"}
    /\ processed' = Append(processed, Logged(current_node_id, <<>>))
    /\ current_node_id' =
          IF Get(NodeOf(current_node_id), "type", "") = "start"
          THEN UnconditionalNext(edges, current_node_id) ELSE None
    /\ UNCHANGED <<crawlVars, knowledgeVars, nodes, edges, llm_integration, start_node_id, message,
                   conversation_history, context,
                   ctx_arg, pc, response, result, port_calls>>

\* a start node or a node of any other type: lines 109-116 only
StepOther ==
    /\ Enter
    /\ Get(NodeOf(current_node_id), "type", "") \notin {"message", "condition", "ai"}
    /\ processed' = Append(processed, Logged(current_node_id, <<>>))
    /\ current_node_id' = UnconditionalNext(edges, current_node_id)
    /\ UNCHANGED <<crawlVars, knowledgeVars, nodes, edges, llm_integration, start_node_id, message,
                   conversation_history, context,
                   ctx_arg, pc, response, result, port_calls>>

Next ==
    \/ ProcessMessageNoWorkflow
    \/ ProcessMessageBegin
    \/ LoopExit
    \/ StepMissingNode
    \/ StepMessage
    \/ StepCondition
    \/ StepAi
    \/ StepOther

Spec == Init /\ [][Next]_vars

----------------------------------------------------------------------------
(* Properties of process_message *)

\* the loop body is about to run on a node of the given type
AtNode(type) ==
    /\ pc = "loop"
    /\ LoopGuard
    /\ HasNode(current_node_id)
    /\ Get(NodeOf(current_node_id), "type", "") = type

\* the context handed in, {} when none was
SuppliedContext == IF ctx_arg = <<>> THEN <<>> ELSE ctx_arg[1]

\* positions of the log at which a node set the pending response
Setters == {i \in 1..Len(processed) : processed[i].produced # <<>>}

Max(S) == CHOOSE x \in S : \A y \in S : y <= x

\* the response the last setter of the log produced
LastProduced == processed[Max(Setters)].produced[1]

\* edge selection as specified for a condition node: the first edge from cur
\* tagged with the label, failing that the first edge from cur tagged
\* "default", failing that none
SpecifiedNext(es, cur, label) ==
    LET exact == {i \in 1..Len(es) :
                    Get(es[i], "source", None) = cur /\ EdgeCondition(es[i]) = label}
        dflt == {i \in 1..Len(es) :
                    Get(es[i], "source", None) = cur /\ EdgeCondition(es[i]) = "default"}
    IN  IF exact # {} THEN Get(es[Min(exact)], "target", None)
        ELSE IF dflt # {} THEN Get(es[Min(dflt)], "target", None)
        ELSE None

\* C1: at a condition node whose evaluation yields label L the traversal
\* continues at the target of the first edge from the node tagged L, at the
\* first edge tagged "default" only when no edge is tagged L, and halts when
\* neither exists
C1_LabelBeforeDefault ==
    [][(/\ AtNode("condition")
        /\ ~EvaluateConditionRaises(NodeOf(current_node_id), message, context)
        /\ iterations' = iterations + 1)
       => current_node_id' =
            SpecifiedNext(edges, current_node_id,
                EvaluateCondition(NodeOf(current_node_id), message, context))]_vars

\* C2: on a graph without nodes the call returns the "no workflow" response
\* without entering the loop, and the returned context is the supplied one
\* with the inbound-message key set to the message
C2_EmptyGraphContext ==
    (pc = "returned" /\ nodes = <<>>) =>
        /\ result[1].response = NoWorkflowResponse
        /\ iterations = 0
        /\ result[1].context = CtxSet(SuppliedContext, UserMessageKey, StrV(message))

\* C3: every call halts and returns a result: the loop body runs at most
\* once per node and once more, and a call that has not returned can step
C3_HaltsWithResult ==
    /\ iterations <= Len(nodes) + 1
    /\ (pc = "returned" \/ ENABLED Next)

\* C4: within one call no node id is processed more than once
C4_NoNodeTwice ==
    \A i \in 1..Len(processed) : \A j \in 1..Len(processed) :
        i # j => processed[i].id # processed[j].id

\* the cycle A -> B -> A: A and B were processed once each and the call has
\* returned with the next id pointing back at A
C4_Witness ==
    /\ pc = "returned"
    /\ Len(processed) = 2
    /\ processed[1].id # processed[2].id
    /\ current_node_id = processed[1].id

\* C5: when a run visits several message or generation nodes, the returned
\* response is the one produced by the last of them
C5_LastSetterWins ==
    (pc = "returned" /\ Cardinality(Setters) >= 2) =>
        result[1].response = LastProduced

\* two setters that produced different responses, and the call has returned
C5_Witness ==
    /\ pc = "returned"
    /\ Cardinality(Setters) = 2
    /\ processed[1].produced # processed[2].produced

\* C6: on a graph with nodes the call returns the default response if and
\* only if no node set a pending response, and the last pending response
\* otherwise
C6_DefaultIffNoneSet ==
    (pc = "returned" /\ nodes # <<>>) =>
        /\ (result[1].response = DefaultResponse <=> Setters = {})
        /\ (Setters # {} => result[1].response = LastProduced)

\* C7: when the port call of a generation node raises, the pending response
\* becomes the fallback reply, the call goes on, and the next node is the
\* target of the node's first outgoing edge
C7_PortErrorFallback ==
    [][(/\ Len(port_calls') = Len(port_calls) + 1
        /\ port_calls'[Len(port_calls')].raised)
       => /\ response' = Some(AiErrorResponse)
          /\ pc' = "loop"
          /\ current_node_id' = UnconditionalNext(edges, current_node_id)]_vars

\* the port call of a first node raised, and the message node after it
\* replaced the fallback reply
C7_Witness ==
    /\ pc = "returned"
    /\ Len(port_calls) = 1
    /\ port_calls[1].raised
    /\ Len(processed) = 2
    /\ processed[1].produced = Some(AiErrorResponse)
    /\ processed[2].produced # <<>>
    /\ result[1].response = processed[2].produced[1]
    /\ result[1].response # AiErrorResponse

\* the failures of the provider call behind generate_response
ProviderFailures == {"api_exception", "status_not_200", "request_exception"}

\* C8: with LLMIntegration as collaborator, a failing provider call makes
\* the generation node set the engine's fallback reply
C8_ProviderFailureFallback ==
    [][(/\ Len(port_calls') = Len(port_calls) + 1
        /\ port_calls'[Len(port_calls')].outcome \in ProviderFailures)
       => response' = Some(AiErrorResponse)]_vars

\* C9: no configuration error aborts the run
C9_NeverRaises == pc # "raised"

----------------------------------------------------------------------------
(* _process_message_node called on its own: a message node whose label is  *)
(* any template of at most MaxPieces pieces, against any context of the    *)
(* keys n and t                                                            *)

TemplatePieces == {<<"{", "n", "}">>, <<"{", "t", "}">>, <<"x">>, <<"{">>, <<"}">>}

RECURSIVE Concat(_)
Concat(pieces) == IF pieces = <<>> THEN <<>> ELSE Head(pieces) \o Concat(Tail(pieces))

Templates == UNION {{Concat(ps) : ps \in [1..k -> TemplatePieces]} : k \in 0..MaxPieces}

ContextValues == {StrV(<<"S">>), StrV(<<"{", "t", "}">>), StrV(<<"{", "n", "}">>), IntV(1)}

ContextKeys == {<<"n">>, <<"t">>}

\* the dicts over ContextKeys, in every insertion order
Contexts ==
    UNION {
        {c \in [1..k -> [key : ContextKeys, value : ContextValues]] :
            \A i \in 1..k : \A j \in 1..k : i # j => c[i].key # c[j].key}
        : k \in 0..2}

InitRender ==
    \E template \in Templates, ctx \in Contexts :
        /\ nodes = <<[id |-> "1", type |-> "message", data |-> [label |-> template]]>>
        /\ edges = <<>>
        /\ llm_integration = "none"
        /\ start_node_id = "1"
        /\ message = <<>>
        /\ conversation_history = <<>>
        /\ ctx_arg = Some(ctx)
        /\ context = ctx
        /\ pc = "unit"
        /\ current_node_id = None
        /\ response = <<>>
        /\ visited_nodes = {}
        /\ result = <<>>
        /\ iterations = 0
        /\ processed = <<>>
        /\ port_calls = <<>>
        /\ NoCrawl
        /\ NoRequests

\* one call of _process_message_node(node, context)
CallProcessMessageNode ==
    /\ pc = "unit"
    /\ response' = Some(ProcessMessageNode(nodes[1], context))
    /\ pc' = "unit_done"
    /\ UNCHANGED <<crawlVars, knowledgeVars, nodes, edges, llm_integration, start_node_id, message,
                   conversation_history, context,
                   ctx_arg, current_node_id, visited_nodes, result, iterations,
                   processed, port_calls>>

SpecRender == InitRender /\ [][CallProcessMessageNode]_vars

IsPrefix(p, s) == Len(p) <= Len(s) /\ SubSeq(s, 1, Len(p)) = p

\* rendering as specified: one pass over the template, left to right; a
\* placeholder of a key of the context gives way to the text of its value,
\* every other character stays, and nothing substituted is read again
RECURSIVE SpecifiedRender(_, _)
SpecifiedRender(template, ctx) ==
    IF template = <<>> THEN <<>>
    ELSE LET hits == {i \in 1..Len(ctx) : IsPrefix(Placeholder(ctx[i].key), template)}
         IN  IF hits = {}
             THEN <<Head(template)>> \o SpecifiedRender(Tail(template), ctx)
             ELSE Str(ctx[Min(hits)].value)
                  \o SpecifiedRender(
                         SubSeq(template, Len(Placeholder(ctx[Min(hits)].key)) + 1,
                                Len(template)),
                         ctx)

\* C10: rendering replaces every {name} of the template whose name is in the
\* context by the text of that variable and leaves every other placeholder
\* as written
C10_RenderSubstitutes ==
    pc = "unit_done" =>
        response[1] = SpecifiedRender(nodes[1].data.label, context)

\* the text of a str value holds the placeholder of a key of the context
HoldsPlaceholder(value, ctx) ==
    /\ value.t = "str"
    /\ \E j \in 1..Len(ctx) : Contains(value.s, Placeholder(ctx[j].key))

\* C11: rendering expands nothing twice: when the value put in place of a
\* placeholder of the template itself holds {other} for a key other of the
\* context, the rendered text holds that value verbatim, in every order of
\* the context keys
C11_NoNestedExpansion ==
    pc = "unit_done" =>
        \A i \in 1..Len(context) :
            (/\ Contains(nodes[1].data.label, Placeholder(context[i].key))
             /\ HoldsPlaceholder(context[i].value, context))
            => Contains(response[1], Str(context[i].value))

----------------------------------------------------------------------------
(* Frame of process_message on the context *)

\* the call passes the test of lines 51-55 and enters the traversal
EntersTraversal == nodes # <<>> /\ Truthy(start_node_id)

\* ctx is the supplied context with the inbound-message key set to the
\* message and every other key and value as supplied
MessageKeySetOnly(ctx) ==
    /\ CtxKeys(ctx) = CtxKeys(SuppliedContext) \cup {UserMessageKey}
    /\ CtxGet(ctx, UserMessageKey) = Some(StrV(message))
    /\ \A k \in CtxKeys(SuppliedContext) \ {UserMessageKey} :
          CtxGet(ctx, k) = CtxGet(SuppliedContext, k)

\* C12: in a call that enters the traversal the context is, from the first
\* step on, the supplied one (or an empty one) with the inbound-message key
\* set to the current message, a previous value of that key overwritten and
\* nothing else changed; the returned context is that context
C12_ContextFrame ==
    (EntersTraversal /\ pc \in {"loop", "returned"}) =>
        /\ MessageKeySetOnly(context)
        /\ pc = "returned" => result[1].context = context

\* a call given a context that held another message under the key has gone
\* through a message node and a condition node and returned
C12_Witness ==
    /\ pc = "returned"
    /\ EntersTraversal
    /\ ctx_arg # <<>>
    /\ CtxGet(SuppliedContext, UserMessageKey) \notin {<<>>, Some(StrV(message))}
    /\ \E i \in 1..Len(processed) : processed[i].produced # <<>>
    /\ \E i \in 1..Len(processed) :
          HasNode(processed[i].id) /\ NodeOf(processed[i].id).type = "condition"
    /\ CtxGet(result[1].context, UserMessageKey) = Some(StrV(message))

\* the call is over: it returned or an exception left it
CallOver == pc \in {"returned", "raised"}

\* C13: every call produces exactly one response, and it is a text
C13_OneTextResponse ==
    CallOver =>
        /\ Len(result) = 1
        /\ result[1].response \in Seq(STRING)

----------------------------------------------------------------------------
(* Start node resolution *)

\* the start node as specified: the first node typed start, failing that
\* the first node, failing that none
SpecifiedStart(ns) ==
    LET starts == {i \in 1..Len(ns) : Get(ns[i], "type", None) = "start"}
    IN  IF starts # {} THEN ns[Min(starts)].id
        ELSE IF ns # <<>> THEN ns[1].id
        ELSE None

\* C14: the start node resolved at construction is the first node typed
\* start, the first node when none is typed start, none on a graph without
\* nodes; when there is one, it is a node of the graph
C14_StartResolution ==
    /\ start_node_id = SpecifiedStart(nodes)
    /\ start_node_id # None => HasNode(start_node_id)

----------------------------------------------------------------------------
(* Edges that lead nowhere *)

\* the loop is about to run on an id no node has
AtMissingNode == pc = "loop" /\ LoopGuard /\ ~HasNode(current_node_id)

\* C15: when the chosen edge leads to an id that is no node of the graph,
\* the next iteration ends the traversal without raising and without
\* processing anything, and the call returns the response accumulated so
\* far, the default response if there is none
C15_MissingTargetHalts ==
    [][(AtMissingNode /\ iterations' = iterations + 1)
       => /\ pc' = "returned"
          /\ processed' = processed
          /\ result' = Some([response |-> IF Setters = {} THEN DefaultResponse
                                         ELSE LastProduced,
                             context |-> context])]_vars

\* a message node set a response, its edge led to an id no node has, and the
\* call returned that response
C15_Witness ==
    /\ pc = "returned"
    /\ current_node_id = Dangling
    /\ Dangling \in visited_nodes
    /\ Setters # {}
    /\ result[1].response = LastProduced

----------------------------------------------------------------------------
(* The example workflow of the module: start -> condition on keywords, the *)
(* edge tagged "true" to one message node and the edge tagged "false" to   *)
(* another, run on its own with any keyword list of at most MaxKeywords    *)
(* keywords and with the two condition edges in either order               *)

RoutingKeywords ==
    {<<"h", "e", "l", "l", "o">>, <<"h", "i">>, <<"h", "e", "y">>}

RoutingKeywordLists == UNION {[1..k -> RoutingKeywords] : k \in 0..MaxKeywords}

RoutingMessages ==
    {<<"h", "e", "l", "l", "o", " ", "w", "o", "r", "l", "d">>,
     <<"x", "y", "z">>,
     <<"H", "E", "L", "L", "O">>,
     <<"o", "h", " ", "H", "i">>,
     <<"H", "e", "y", "!">>,
     <<"h", "e">>}

TextA == <<"H", "i", "!">>

TextB == <<"I didn't understand">>

RoutingNodes(keywords) ==
    <<[id |-> "1", type |-> "start", data |-> [label |-> <<"Start Conversation">>]],
      [id |-> "2", type |-> "condition",
       data |-> [label |-> <<"Check greeting">>, conditionType |-> "keyword",
                 keywords |-> keywords]],
      [id |-> "3", type |-> "message", data |-> [label |-> TextA]],
      [id |-> "4", type |-> "message", data |-> [label |-> TextB]]>>

RoutingEdges(trueFirst) ==
    IF trueFirst
    THEN <<Edge("1", "2", None), Edge("2", "3", "true"), Edge("2", "4", "false")>>
    ELSE <<Edge("1", "2", None), Edge("2", "4", "false"), Edge("2", "3", "true")>>

InitRouting ==
    \E keywords \in RoutingKeywordLists, trueFirst \in BOOLEAN,
       msg \in RoutingMessages :
    LET wd == WorkflowData(RoutingNodes(keywords), RoutingEdges(trueFirst)) IN
        /\ nodes = wd.nodes
        /\ edges = wd.edges
        /\ llm_integration = "none"
        /\ start_node_id = ResolveStart(wd.nodes)
        /\ message = msg
        /\ conversation_history = <<>>
        /\ ctx_arg = <<>>
        /\ context = <<>>
        /\ pc = "ready"
        /\ current_node_id = None
        /\ response = <<>>
        /\ visited_nodes = {}
        /\ result = <<>>
        /\ iterations = 0
        /\ processed = <<>>
        /\ port_calls = <<>>
        /\ NoCrawl
        /\ NoRequests

\* the steps a run on this workflow takes
NextRouting ==
    \/ ProcessMessageBegin
    \/ LoopExit
    \/ StepMessage
    \/ StepCondition
    \/ StepOther

SpecRouting == InitRouting /\ [][NextRouting]_vars

\* a and b are the same letter, case apart
SameLetter(a, b) ==
    \/ a = b
    \/ \E i \in 1..Len(UpperLetters) : {a, b} = {UpperLetters[i], LowerLetters[i]}

\* keyword occurs in msg as a substring, case apart
OccursIgnoringCase(keyword, msg) ==
    \E o \in 0..(Len(msg) - Len(keyword)) :
        \A j \in 1..Len(keyword) : SameLetter(msg[o + j], keyword[j])

\* C16: on the workflow start -> condition(K) -true-> A, -false-> B the call
\* returns A's text for every message that holds a keyword of K, case
\* apart, and B's text for every other message
C16_KeywordRouting ==
    pc = "returned" =>
        result[1].response =
            IF \E i \in 1..Len(nodes[2].data.keywords) :
                   OccursIgnoringCase(nodes[2].data.keywords[i], message)
            THEN TextA ELSE TextB

\* keyword list [hello], message "hello world": the call went through the
\* start node, the condition and the message node 3 and returned "Hi!"
C16_Witness ==
    /\ pc = "returned"
    /\ nodes[2].data.keywords = << <<"h", "e", "l", "l", "o">> >>
    /\ message = <<"h", "e", "l", "l", "o", " ", "w", "o", "r", "l", "d">>
    /\ Len(processed) = 3
    /\ processed[3].id = "3"
    /\ result[1].response = TextA

----------------------------------------------------------------------------
(* Several calls of process_message on one engine, interleaved.  The       *)
(* engine's attributes (nodes, edges, start_node_id, llm_integration) are  *)
(* one object that every call reads; the arguments and the locals of a     *)
(* call belong to it, so in this specification each of message, ctx_arg,   *)
(* context, pc, current_node_id, response, visited_nodes, result,          *)
(* iterations and processed is a function from the calls to what the       *)
(* variable holds in that call.  The steps are those of process_message,   *)
(* written on the record of one call's arguments and locals.               *)

Runs == {1, 2}

\* a call before its first step
NewRun(msg, ca) ==
    [message |-> msg, ctx_arg |-> ca, context |-> <<>>, pc |-> "ready",
     current_node_id |-> None, response |-> <<>>, visited_nodes |-> {},
     result |-> <<>>, iterations |-> 0, processed |-> <<>>]

\* lines 51-69 on the record of a call
RunEnter(run) ==
    IF nodes = <<>> \/ ~Truthy(start_node_id)
    THEN [run EXCEPT
            !.result = Some([response |-> NoWorkflowResponse,
                             context |-> IF run.ctx_arg = <<>> THEN <<>>
                                         ELSE run.ctx_arg[1]]),
            !.pc = "returned"]
    ELSE [run EXCEPT
            !.context = CtxSet(IF run.ctx_arg = <<>> THEN <<>> ELSE run.ctx_arg[1],
                               UserMessageKey, StrV(run.message)),
            !.current_node_id = start_node_id,
            !.response = <<>>,
            !.visited_nodes = {},
            !.pc = "loop"]

\* the while condition of line 72 on the record of a call
RunLoopGuard(run) ==
    Truthy(run.current_node_id) /\ run.current_node_id \notin run.visited_nodes

\* the collaborators of this specification answer in one way only
RunOutcome == CHOOSE outcome \in PortOutcomes(llm_integration) : TRUE

\* one iteration of the loop, lines 73-116, on the record of a call
RunIterate(run) ==
    LET id == run.current_node_id
        entered == [run EXCEPT !.visited_nodes = @ \cup {id},
                               !.iterations = @ + 1]
    IN  IF ~HasNode(id)
        THEN [entered EXCEPT !.result = Returned(run.response, run.context),
                             !.pc = "returned"]
        ELSE
        LET node == NodeOf(id)
            node_type == Get(node, "type", "")
        IN  CASE node_type = "message" ->
                   LET produced == ProcessMessageNode(node, run.context)
                   IN  [entered EXCEPT
                          !.response = Assign(run.response, produced),
                          !.processed = Append(@, Logged(id, Some(produced))),
                          !.current_node_id = UnconditionalNext(edges, id)]
              [] node_type = "condition" ->
                   IF EvaluateConditionRaises(node, run.message, run.context)
                   THEN [entered EXCEPT
                          !.processed = Append(@, Logged(id, <<>>)),
                          !.pc = "raised"]
                   ELSE [entered EXCEPT
                          !.processed = Append(@, Logged(id, <<>>)),
                          !.current_node_id =
                              ConditionNext(edges, id,
                                  EvaluateCondition(node, run.message, run.context))]
              [] node_type = "ai" ->
                   LET produced == ProcessAiNode(node, llm_integration, RunOutcome)
                   IN  [entered EXCEPT
                          !.response = Assign(run.response, produced),
                          !.processed = Append(@, Logged(id, Some(produced))),
                          !.current_node_id = UnconditionalNext(edges, id)]
              [] OTHER ->
                   [entered EXCEPT
                          !.processed = Append(@, Logged(id, <<>>)),
                          !.current_node_id = UnconditionalNext(edges, id)]

\* lines 118-125 on the record of a call
RunReturn(run) ==
    [run EXCEPT !.result = Returned(run.response, run.context), !.pc = "returned"]

\* the next step of a call that is not over
RunStep(run) ==
    IF run.pc = "ready" THEN RunEnter(run)
    ELSE IF RunLoopGuard(run) THEN RunIterate(run)
    ELSE RunReturn(run)

VisitedOnEngine(visited, r) == UNION {visited[q] : q \in Runs}

\* the set `visited_nodes` of call r: the local created on line 69
VisitedBy(visited, r) == visited[r]

\* the record of call r
RunOf(r) ==
    [message |-> message[r], ctx_arg |-> ctx_arg[r], context |-> context[r],
     pc |-> pc[r], current_node_id |-> current_node_id[r],
     response |-> response[r], visited_nodes |-> VisitedBy(visited_nodes, r),
     result |-> result[r], iterations |-> iterations[r],
     processed |-> processed[r]]

\* the graphs of the interleaved calls: the node lists of start, message,
\* condition (keyword or regex) and ai nodes without an empty id, every edge
\* list of at most MaxInterleavedEdges edges
InterleavedNodeLists ==
    {ns \in NodeLists :
        /\ ns # <<>>
        /\ \A i \in 1..Len(ns) :
              /\ ns[i].id # ""
              /\ ns[i].type \in {"start", "message", "condition", "ai"}
              /\ Get(ns[i].data, "conditionType", "keyword") \in {"keyword", "regex"}}

InterleavedEdgeLists(ns) ==
    {es \in EdgeLists(ns) : Len(es) <= MaxInterleavedEdges}

InterleavedCollaborators == {"none", "other"}

InitInterleaved ==
    \E ns \in InterleavedNodeLists :
    \E es \in InterleavedEdgeLists(ns),
       msgs \in [Runs -> MessagesFor(ns)],
       cas \in [Runs -> ContextArgsFor(ns)],
       llm \in CollaboratorsFor(ns) \cap InterleavedCollaborators :
    LET wd == WorkflowData(ns, es) IN
        /\ nodes = wd.nodes
        /\ edges = wd.edges
        /\ llm_integration = llm
        /\ start_node_id = ResolveStart(wd.nodes)
        /\ message = msgs
        /\ conversation_history = [r \in Runs |-> <<>>]
        /\ ctx_arg = cas
        /\ context = [r \in Runs |-> <<>>]
        /\ pc = [r \in Runs |-> "ready"]
        /\ current_node_id = [r \in Runs |-> None]
        /\ response = [r \in Runs |-> <<>>]
        /\ visited_nodes = [r \in Runs |-> {}]
        /\ result = [r \in Runs |-> <<>>]
        /\ iterations = [r \in Runs |-> 0]
        /\ processed = [r \in Runs |-> <<>>]
        /\ port_calls = <<>>
        /\ NoCrawl
        /\ NoRequests

\* call r takes its next step; the engine's attributes are read only
StepRun(r) ==
    /\ pc[r] \notin {"returned", "raised"}
    /\ LET run == RunOf(r)
           next == RunStep(run)
       IN  /\ context' = [context EXCEPT ![r] = next.context]
           /\ pc' = [pc EXCEPT ![r] = next.pc]
           /\ current_node_id' = [current_node_id EXCEPT ![r] = next.current_node_id]
           /\ response' = [response EXCEPT ![r] = next.response]
           /\ visited_nodes' = [visited_nodes EXCEPT ![r] = next.visited_nodes]
           /\ result' = [result EXCEPT ![r] = next.result]
           /\ iterations' = [iterations EXCEPT ![r] = next.iterations]
           /\ processed' = [processed EXCEPT ![r] = next.processed]
           /\ port_calls' =
                 IF /\ run.pc = "loop" /\ RunLoopGuard(run)
                    /\ HasNode(run.current_node_id)
                    /\ Get(NodeOf(run.current_node_id), "type", "") = "ai"
                    /\ llm_integration # "none"
                 THEN Append(port_calls,
                             PortCall(NodeOf(run.current_node_id), run.message,
                                      conversation_history[r],
                                      run.context, llm_integration, RunOutcome))
                 ELSE port_calls
    /\ UNCHANGED <<crawlVars, knowledgeVars, nodes, edges, llm_integration, start_node_id, message,
                   conversation_history, ctx_arg>>

NextInterleaved == \E r \in Runs : StepRun(r)

SpecInterleaved == InitInterleaved /\ [][NextInterleaved]_vars

\* the call run alone, from its first step to its end
RECURSIVE RunAlone(_)
RunAlone(run) ==
    IF run.pc \in {"returned", "raised"} THEN run ELSE RunAlone(RunStep(run))

\* C17: calls on one engine, each with its own context, interleaved step by
\* step in any order: no step writes the node map, the edge list or the
\* start node id, and every call ends as it ends when run alone, with the
\* same response and context
C17_InterleavedAsAlone ==
    [][/\ nodes' = nodes /\ edges' = edges /\ start_node_id' = start_node_id
       /\ \A r \in Runs :
             pc'[r] \in {"returned", "raised"} =>
                LET alone == RunAlone(NewRun(message[r], ctx_arg[r]))
                IN  pc'[r] = alone.pc /\ result'[r] = alone.result]_vars

\* both calls started at the same node before either went on, they were
\* given different messages, both went through a node that set a response
\* and returned different responses
C17_Witness ==
    /\ pc = [r \in Runs |-> "returned"]
    /\ message[1] # message[2]
    /\ \A r \in Runs : Len(processed[r]) >= 2 /\ iterations[r] >= 2
    /\ processed[1][1].id = processed[2][1].id
    /\ result[1][1].response # result[2][1].response
    /\ \A r \in Runs : result[r][1].response # DefaultResponse

----------------------------------------------------------------------------
(* _evaluate_condition called on its own: a condition node of any strategy *)
(* against any message of ConditionMessages                                *)

Hello == <<"h", "e", "l", "l", "o">>

Hi == <<"h", "i">>

Bye == <<"b", "y", "e">>

ConditionMessages ==
    RoutingMessages
    \cup {<<"H", "e", "l", "l", "o", " ", "t", "h", "e", "r", "e">>, Bye,
          <<"B", "y", "e", " ", "h", "I">>}

\* a keyword may be configured in upper case
ConditionKeywords == RoutingKeywords \cup {Bye, <<"H", "I">>}

ConditionKeywordLists == UNION {[1..k -> ConditionKeywords] : k \in 0..MaxKeywords}

\* the keyword lists of an intent
IntentKeywordLists == {<<>>, <<Hi>>, <<Hello>>, <<Bye>>, <<Hi, Bye>>}

IntentNames == {"greeting", "farewell"}

\* the intents mappings: items [name, keywords] in declared order, names
\* unique
IntentMappings ==
    UNION {
        {m \in [1..k -> [name : IntentNames, keywords : IntentKeywordLists]] :
            \A i \in 1..k : \A j \in 1..k : i # j => m[i].name # m[j].name}
        : k \in 0..Cardinality(IntentNames)}

\* values of a context variable and expected values of a node: texts that
\* differ in case only, a text that holds another, a number and its text
VariableValues ==
    {StrV(<<"S">>), StrV(<<"s">>), StrV(<<"S", "S">>), StrV(<<"1">>), IntV(1)}

\* the data of a condition node, per strategy; no conditionType and no
\* keywords are the defaults of the evaluator
ConditionData ==
    {[conditionType |-> "keyword", keywords |-> ks] : ks \in ConditionKeywordLists}
    \cup {[keywords |-> ks] : ks \in ConditionKeywordLists}
    \cup {[conditionType |-> "keyword"]}
    \cup {[conditionType |-> "intent", intents |-> m] : m \in IntentMappings}
    \cup {[conditionType |-> "intent"]}
    \cup {[conditionType |-> "regex", pattern |-> p] : p \in {Hi, <<"(">>, <<>>}}
    \cup {[conditionType |-> "variable", variable |-> <<"n">>, value |-> v] :
            v \in VariableValues}
    \cup {[conditionType |-> "variable", variable |-> <<"n">>],
          [conditionType |-> "variable", value |-> StrV(<<"S">>)],
          [conditionType |-> "variable"],
          [conditionType |-> "sentiment"],
          EmptyDict}

\* the contexts of the variable strategy: empty, the variable n with any
\* value, another variable only, the variable named by the empty text
ConditionContexts ==
    {<<>>}
    \cup {<<[key |-> <<"n">>, value |-> v]>> : v \in VariableValues}
    \cup {<<[key |-> <<"t">>, value |-> StrV(<<"S">>)]>>,
          <<[key |-> <<>>, value |-> StrV(<<"S">>)]>>}

\* the context is read by the variable strategy only
ConditionContextsFor(data) ==
    IF Get(data, "conditionType", DefaultConditionType) = "variable"
    THEN ConditionContexts ELSE {<<>>}

InitCondition ==
    \E data \in ConditionData, msg \in ConditionMessages :
    \E ctx \in ConditionContextsFor(data) :
        /\ nodes = <<[id |-> "1", type |-> "condition", data |-> data]>>
        /\ edges = <<>>
        /\ llm_integration = "none"
        /\ start_node_id = "1"
        /\ message = msg
        /\ conversation_history = <<>>
        /\ ctx_arg = Some(ctx)
        /\ context = ctx
        /\ pc = "unit"
        /\ current_node_id = None
        /\ response = <<>>
        /\ visited_nodes = {}
        /\ result = <<>>
        /\ iterations = 0
        /\ processed = <<>>
        /\ port_calls = <<>>
        /\ NoCrawl
        /\ NoRequests

\* one call of _evaluate_condition(node, message, context): result holds
\* the label it returns
CallEvaluateCondition ==
    /\ pc = "unit"
    /\ IF EvaluateConditionRaises(nodes[1], message, context)
       THEN pc' = "raised" /\ UNCHANGED result
       ELSE /\ result' = Some(EvaluateCondition(nodes[1], message, context))
            /\ pc' = "unit_done"
    /\ UNCHANGED <<crawlVars, knowledgeVars, nodes, edges, llm_integration, start_node_id, message,
                   conversation_history, context,
                   ctx_arg, current_node_id, response, visited_nodes, iterations,
                   processed, port_calls>>

SpecCondition == InitCondition /\ [][CallEvaluateCondition]_vars

\* the strategy of the node the evaluator was called on
StrategyIs(strategy) ==
    pc = "unit_done" /\ Get(nodes[1].data, "conditionType", "keyword") = strategy

\* some keyword of the list occurs in the message, case apart
SomeKeywordOccurs(keywords, msg) ==
    \E i \in 1..Len(keywords) : OccursIgnoringCase(keywords[i], msg)

\* C19: the keyword strategy returns "true" if and only if a configured
\* keyword occurs in the message as a substring, case apart, and "false"
\* otherwise, an empty or absent keyword list included
C19_KeywordStrategy ==
    StrategyIs("keyword") =>
        result[1] = IF SomeKeywordOccurs(Get(nodes[1].data, "keywords", <<>>), message)
                    THEN "true" ELSE "false"

\* keywords [hello, hi] and the message "Hello there": the label is "true"
C19_Witness ==
    /\ StrategyIs("keyword")
    /\ Get(nodes[1].data, "keywords", <<>>) = <<Hello, Hi>>
    /\ message = <<"H", "e", "l", "l", "o", " ", "t", "h", "e", "r", "e">>
    /\ result[1] = "true"

\* positions of the intents that have a keyword occurring in the message
MatchingIntents(intents, msg) ==
    {i \in 1..Len(intents) : SomeKeywordOccurs(intents[i].keywords, msg)}

\* C20: the intent strategy returns the name of the first intent, in the
\* declared order of the mapping, that has a keyword occurring in the
\* message case apart, also when a later intent matches too, and "default"
\* when no intent matches
C20_FirstIntentWins ==
    StrategyIs("intent") =>
        LET intents == Get(nodes[1].data, "intents", <<>>)
            hits == MatchingIntents(intents, message)
        IN  result[1] = IF hits = {} THEN "default" ELSE intents[Min(hits)].name

\* two intents both match the message and the label is the first one's name
C20_Witness ==
    /\ StrategyIs("intent")
    /\ Cardinality(MatchingIntents(Get(nodes[1].data, "intents", <<>>), message)) = 2
    /\ result[1] = nodes[1].data.intents[1].name
    /\ result[1] # nodes[1].data.intents[2].name

----------------------------------------------------------------------------
(* The variable strategy and the default strategy *)

\* the variable the node names is a key of the context
VariablePresent ==
    \E i \in 1..Len(context) : context[i].key = Get(nodes[1].data, "variable", <<>>)

\* C21: the variable strategy returns "true" if and only if the value the
\* context holds for the named variable is the configured expected value,
\* as a whole and in the same case (a variable the context lacks and a value
\* the node does not name both read as None), and "false" otherwise
C21_VariableStrategy ==
    StrategyIs("variable") =>
        (result[1] = "true"
            <=> CtxGet(context, Get(nodes[1].data, "variable", <<>>))
                    = ExpectedValue(nodes[1].data))
        /\ result[1] \in {"true", "false"}

\* the context holds "s" for the variable, the node expects "S": "false"
C21_Witness ==
    /\ StrategyIs("variable")
    /\ VariablePresent
    /\ CtxGet(context, <<"n">>) = Some(StrV(<<"s">>))
    /\ ExpectedValue(nodes[1].data) = Some(StrV(<<"S">>))
    /\ result[1] = "false"

\* C28 as stated: with the variable strategy, whenever the named variable
\* is absent from the context the label is "false", whatever the node
\* configures
C28_AbsentVariableFalse ==
    (StrategyIs("variable") /\ ~VariablePresent) => result[1] = "false"

\* C28 as amended: with the variable strategy, whenever the named variable
\* is absent from the context the label is "false" if the node names an
\* expected value and "true" if it names none
C28_AbsentVariable ==
    (StrategyIs("variable") /\ ~VariablePresent) =>
        result[1] = IF "value" \in DOMAIN nodes[1].data THEN "false" ELSE "true"

\* the context holds another variable only, the node names the variable n
\* and no expected value: the label is "true"
C28_Witness ==
    /\ StrategyIs("variable")
    /\ ~VariablePresent
    /\ context # <<>>
    /\ "variable" \in DOMAIN nodes[1].data
    /\ "value" \notin DOMAIN nodes[1].data
    /\ result[1] = "true"

\* C29: a condition node whose data names no conditionType is evaluated
\* with the keyword strategy: "true" when one of its keywords occurs in the
\* message, "false" when none does or it has no keywords, never "default"
C29_DefaultStrategyKeyword ==
    (pc = "unit_done" /\ "conditionType" \notin DOMAIN nodes[1].data) =>
        /\ result[1] # "default"
        /\ result[1] \in {"true", "false"}
        /\ result[1] = "true"
              <=> /\ "keywords" \in DOMAIN nodes[1].data
                  /\ SomeKeywordOccurs(nodes[1].data.keywords, message)

\* a node with empty data: the label is "false"
C29_Witness ==
    /\ pc = "unit_done"
    /\ nodes[1].data = EmptyDict
    /\ result[1] = "false"

----------------------------------------------------------------------------
(* Node dispatch and the choice of the next node *)

\* the loop body is about to run on the node `current_node_id` names
AtSomeNode == pc = "loop" /\ LoopGuard /\ HasNode(current_node_id)

\* the type of that node
TypeHere == Get(NodeOf(current_node_id), "type", "")

\* the step taken is one iteration of the loop
Iterates == iterations' = iterations + 1

\* target of the first edge of the list that leaves cur, whatever its tag;
\* None when no edge leaves cur
FirstEdgeTarget(es, cur) ==
    IF \A i \in 1..Len(es) : es[i].source # cur THEN None
    ELSE es[CHOOSE i \in 1..Len(es) :
                /\ es[i].source = cur
                /\ \A j \in 1..(i - 1) : es[j].source # cur].target

\* the tag of an edge, None when it has none
TagOf(edge) == IF "data" \in DOMAIN edge THEN edge.data.condition ELSE None

\* target of the first edge of the list that leaves cur with the given tag;
\* None when there is none
FirstTaggedTarget(es, cur, tag) ==
    IF \A i \in 1..Len(es) : ~(es[i].source = cur /\ TagOf(es[i]) = tag) THEN None
    ELSE es[CHOOSE i \in 1..Len(es) :
                /\ es[i].source = cur /\ TagOf(es[i]) = tag
                /\ \A j \in 1..(i - 1) :
                      ~(es[j].source = cur /\ TagOf(es[j]) = tag)].target

\* the strategies the evaluator knows
KnownStrategies == {"keyword", "regex", "intent", "variable"}

\* the node here is a condition node that names a strategy the evaluator
\* does not know
AtUnknownStrategy ==
    /\ AtSomeNode
    /\ TypeHere = "condition"
    /\ "conditionType" \in DOMAIN NodeOf(current_node_id).data
    /\ NodeOf(current_node_id).data.conditionType \notin KnownStrategies

\* C22: a condition node whose conditionType is none of keyword, regex,
\* intent, variable does not fail: the traversal goes on at the target of
\* the first edge from the node tagged "default" and halts when there is
\* none
C22_UnknownStrategyDefault ==
    [][(AtUnknownStrategy /\ Iterates)
       => /\ pc' = "loop"
          /\ current_node_id' = FirstTaggedTarget(edges, current_node_id, "default")]_vars

\* a condition node of an unknown strategy was processed first and the node
\* behind its edge tagged "default" second
C22_Witness ==
    /\ pc = "returned"
    /\ Len(processed) = 2
    /\ NodeOf(processed[1].id).type = "condition"
    /\ NodeOf(processed[1].id).data.conditionType \notin KnownStrategies
    /\ processed[2].id = FirstTaggedTarget(edges, processed[1].id, "default")

\* C23: a condition node never sets or changes the pending response
C23_ConditionKeepsResponse ==
    [][(AtSomeNode /\ TypeHere = "condition" /\ Iterates)
       => response' = response]_vars

\* a message node set a response, the condition node after it was
\* processed, and the call returned the message node's response
C23_Witness ==
    /\ pc = "returned"
    /\ Len(processed) = 2
    /\ processed[1].produced # <<>>
    /\ NodeOf(processed[2].id).type = "condition"
    /\ result[1].response = processed[1].produced[1]

\* C24: a node typed start and a node of any type the engine does not know
\* leave the pending response and the context unchanged, and the traversal
\* goes on at the target of the node's first outgoing edge
C24_OtherNodesPassThrough ==
    [][(AtSomeNode /\ TypeHere \notin {"message", "condition", "ai"} /\ Iterates)
       => /\ response' = response
          /\ context' = context
          /\ pc' = "loop"
          /\ current_node_id' = FirstEdgeTarget(edges, current_node_id)]_vars

\* a node of an unknown type was processed first and the message node behind
\* its first edge second
C24_Witness ==
    /\ pc = "returned"
    /\ Len(processed) = 2
    /\ NodeOf(processed[1].id).type \notin {"start", "message", "condition", "ai"}
    /\ processed[2].id = FirstEdgeTarget(edges, processed[1].id)
    /\ processed[2].produced # <<>>
    /\ result[1].response = processed[2].produced[1]

\* C25: from a node that is not a condition node the traversal goes on at
\* the target of the first edge of the edge list that leaves the node,
\* whatever the tag of that edge and however many edges leave the node, and
\* at no node when no edge leaves it
C25_FirstEdgeOnly ==
    [][(AtSomeNode /\ TypeHere # "condition" /\ Iterates)
       => /\ pc' = "loop"
          /\ current_node_id' = FirstEdgeTarget(edges, current_node_id)]_vars

\* two edges leave the first node, a message node: the first one, tagged,
\* to the second node and another one elsewhere; the second node was
\* processed next
C25_Witness ==
    /\ pc = "returned"
    /\ Len(edges) = 2
    /\ edges[1].source = edges[2].source
    /\ edges[1].target # edges[2].target
    /\ TagOf(edges[1]) # None
    /\ Len(processed) = 2
    /\ processed[1].id = edges[1].source
    /\ NodeOf(processed[1].id).type = "message"
    /\ processed[2].id = edges[1].target

\* the generation nodes of the graph
AiNodes == {i \in 1..Len(nodes) : Get(nodes[i], "type", "") = "ai"}

\* C27: in one call the loop body runs at most once per node and once more,
\* and the port is called at most as many times as the graph has generation
\* nodes
C27_BoundedWork ==
    /\ iterations <= Len(nodes) + 1
    /\ Len(port_calls) <= Cardinality(AiNodes)

\* two generation nodes in a row and an edge to an id no node has: three
\* iterations, two port calls
C27_Witness ==
    /\ pc = "returned"
    /\ Len(nodes) = 2
    /\ iterations = 3
    /\ Len(port_calls) = 2

\* C30: on an engine without collaborator a generation node makes no port
\* call, sets the pending response to the "not available" text, and the
\* traversal goes on at the target of the node's first outgoing edge
C30_NoCollaborator ==
    [][(AtSomeNode /\ TypeHere = "ai" /\ llm_integration = "none" /\ Iterates)
       => /\ port_calls' = port_calls
          /\ response' = Some(AiUnavailableResponse)
          /\ pc' = "loop"
          /\ current_node_id' = FirstEdgeTarget(edges, current_node_id)]_vars

\* without collaborator: a generation node was processed first, the node
\* behind its first edge second, and no port call was made
C30_Witness ==
    /\ pc = "returned"
    /\ llm_integration = "none"
    /\ port_calls = <<>>
    /\ Len(processed) = 2
    /\ NodeOf(processed[1].id).type = "ai"
    /\ processed[1].produced = Some(AiUnavailableResponse)
    /\ processed[2].id = FirstEdgeTarget(edges, processed[1].id)

----------------------------------------------------------------------------
(* A workflow of one generation node, run with any configuration of the    *)
(* node, any conversation history, context argument and collaborator       *)

PromptTemplate == <<"{", "n", "}", "?">>

AiModels == {"m1"}

\* temperatures a node may set, 0 among them
AiTemperatures == {"0", "0.2"}

\* the data of a generation node: each of systemPrompt, model and
\* temperature set or not
AiData ==
    {EmptyDict, [systemPrompt |-> PromptTemplate]}
    \cup {[model |-> m] : m \in AiModels}
    \cup {[temperature |-> t] : t \in AiTemperatures}
    \cup {[systemPrompt |-> PromptTemplate, model |-> m] : m \in AiModels}
    \cup {[systemPrompt |-> PromptTemplate, temperature |-> t] : t \in AiTemperatures}
    \cup {[model |-> m, temperature |-> t] : m \in AiModels, t \in AiTemperatures}
    \cup {[systemPrompt |-> PromptTemplate, model |-> m, temperature |-> t] :
            m \in AiModels, t \in AiTemperatures}

\* the conversation_history argument: omitted, empty, one earlier message
Histories ==
    {<<>>, Some(<<>>), Some(<<[role |-> "user", content |-> <<"a">>]>>)}

InitGeneration ==
    \E data \in AiData, history \in Histories, ca \in ContextArgs,
       llm \in Collaborators :
    LET wd == WorkflowData(<<[id |-> "1", type |-> "ai", data |-> data]>>, <<>>) IN
        /\ nodes = wd.nodes
        /\ edges = wd.edges
        /\ llm_integration = llm
        /\ start_node_id = ResolveStart(wd.nodes)
        /\ message = <<"H", "i">>
        /\ conversation_history = history
        /\ ctx_arg = ca
        /\ context = <<>>
        /\ pc = "ready"
        /\ current_node_id = None
        /\ response = <<>>
        /\ visited_nodes = {}
        /\ result = <<>>
        /\ iterations = 0
        /\ processed = <<>>
        /\ port_calls = <<>>
        /\ NoCrawl
        /\ NoRequests

\* the steps a run on this workflow takes
NextGeneration ==
    \/ ProcessMessageBegin
    \/ StepAi
    \/ LoopExit

SpecGeneration == InitGeneration /\ [][NextGeneration]_vars

\* the data of the node the loop body is about to run on
DataHere == Get(NodeOf(current_node_id), "data", EmptyDict)

\* C26: a generation node of an engine with a collaborator makes exactly
\* one port call, with the inbound message as prompt, the node's system
\* prompt rendered against the context, the conversation history handed to
\* process_message, the node's model, and the node's temperature or 0.7
\* when it sets none; the value the call returns becomes the pending
\* response
C26_PortCallArguments ==
    [][(AtSomeNode /\ TypeHere = "ai" /\ llm_integration # "none" /\ Iterates)
       => /\ Len(port_calls') = Len(port_calls) + 1
          /\ SubSeq(port_calls', 1, Len(port_calls)) = port_calls
          /\ LET call == port_calls'[Len(port_calls')]
             IN  /\ call.prompt = message
                 /\ call.system_prompt =
                       ReplaceVariables(
                           IF "systemPrompt" \in DOMAIN DataHere
                           THEN DataHere.systemPrompt ELSE DefaultSystemPrompt,
                           context)
                 /\ call.conversation_history = conversation_history
                 /\ call.model = IF "model" \in DOMAIN DataHere
                                 THEN DataHere.model ELSE None
                 /\ call.temperature = IF "temperature" \in DOMAIN DataHere
                                       THEN DataHere.temperature ELSE "0.7"
                 /\ ~call.raised =>
                       response' = Some(IF call.outcome = "ok" THEN Completion
                                        ELSE ErrorText(call.outcome))]_vars

\* a node that sets a system prompt with a placeholder, a model and the
\* temperature 0; a context that holds the variable; a history of one
\* message: one call was made with the rendered prompt and its completion
\* was returned
C26_Witness ==
    /\ pc = "returned"
    /\ Len(port_calls) = 1
    /\ port_calls[1].prompt = <<"H", "i">>
    /\ port_calls[1].system_prompt = <<"S", "?">>
    /\ port_calls[1].conversation_history # <<>>
    /\ port_calls[1].conversation_history[1] # <<>>
    /\ port_calls[1].model = "m1"
    /\ port_calls[1].temperature = "0"
    /\ port_calls[1].outcome = "ok"
    /\ result[1].response = Completion

----------------------------------------------------------------------------
(* crawl_website of backend/document_processor.py.                          *)
(* A URL or an href is a sequence of the parts the code tells apart: its    *)
(* leading marker or scheme, then for an absolute URL the host, then the    *)
(* path. requests.get is the site: for each URL of the host it either       *)
(* raises or gives a status code and a page with its hrefs in order.        *)

MaxLinks == 2

MaxDepth == 2

\* base_url as process_website derives it from the URL it is given
BaseUrl == <<"https://", "s">>

\* the URL the outermost call is given
StartUrl == BaseUrl

\* the URLs of the host, in a fixed order
UrlPool == <<BaseUrl, <<"https://", "s", "/b">>, <<"https://", "s", "/c">>>>

SiteUrls == {UrlPool[i] : i \in 1..Len(UrlPool)}

\* the hrefs a page may carry: an anchor, two relative paths, the absolute
\* URL of the start page, an absolute URL of another host
Hrefs ==
    {<<"#", "top">>, <<"/b">>, <<"/c">>, <<"https://", "s">>,
     <<"https://", "o", "/b">>}

\* str.startswith with a tuple of prefixes
StartsWith(s, prefixes) == s # <<>> /\ s[1] \in prefixes

SkippedPrefixes == {"#", "mailto:", "tel:", "javascript:"}

HttpPrefixes == {"http://", "https://"}

\* urljoin of a base without a path and a path
UrlJoin(base, href) == SubSeq(base, 1, 2) \o href

\* urlparse(url).netloc
Netloc(url) ==
    IF StartsWith(url, HttpPrefixes) /\ Len(url) >= 2 THEN url[2] ELSE ""

\* the absolute URL an href stands for
Resolve(href, base_url) ==
    IF ~StartsWith(href, HttpPrefixes) THEN UrlJoin(base_url, href) ELSE href

SeenNever(url, seen) == FALSE

\* url in visited
Seen(url, seen) == \E i \in 1..Len(seen) : seen[i] = url

\* what requests.get may do for a URL
GetOutcomes ==
    {[raises |-> FALSE, status_code |-> 200],
     [raises |-> FALSE, status_code |-> 404],
     [raises |-> TRUE, status_code |-> 0]}

\* at most one URL of the host does not answer with 200
SiteOutcomes ==
    {[u \in SiteUrls |-> [raises |-> FALSE, status_code |-> 200]]}
    \cup {[u \in SiteUrls |-> IF u = bad THEN o
                              ELSE [raises |-> FALSE, status_code |-> 200]] :
            bad \in SiteUrls, o \in GetOutcomes}

\* the hrefs of page k among the links of the site, which are listed page
\* by page
HrefsOf(k, src, hs) ==
    LET idx == {i \in DOMAIN src : src[i] = k}
    IN  IF idx = {} THEN <<>> ELSE SubSeq(hs, Min(idx), Max(idx))

InitCrawl ==
    \E n \in 0..MaxLinks :
    \E src \in [1..n -> 1..Len(UrlPool)], hs \in [1..n -> Hrefs] :
    \E outcomes \in SiteOutcomes, depth \in (0 - 1)..MaxDepth :
        /\ \A i \in 1..n, j \in 1..n : i < j => src[i] <= src[j]
        /\ pages = [u \in SiteUrls |->
                      [raises |-> outcomes[u].raises,
                       status_code |-> outcomes[u].status_code,
                       hrefs |-> HrefsOf(CHOOSE k \in 1..Len(UrlPool) :
                                             UrlPool[k] = u, src, hs)]]
        /\ max_depth = depth
        /\ crawl_visited = <<>>
        /\ frames = <<>>
        /\ crawled = <<>>
        /\ NoRequests
        /\ nodes = <<>>
        /\ edges = <<>>
        /\ llm_integration = "none"
        /\ start_node_id = None
        /\ message = <<>>
        /\ conversation_history = <<>>
        /\ ctx_arg = <<>>
        /\ context = <<>>
        /\ pc = "crawl"
        /\ current_node_id = None
        /\ response = <<>>
        /\ visited_nodes = {}
        /\ result = <<>>
        /\ iterations = 0
        /\ processed = <<>>
        /\ port_calls = <<>>

\* the variables of the engine, which a crawl does not touch
engineVars ==
    <<nodes, edges, llm_integration, start_node_id, message,
      conversation_history, context, ctx_arg, pc, current_node_id, response,
      visited_nodes, result, iterations, processed, port_calls>>

\* a call of crawl_website that has bound its arguments
Frame(url, current_depth) ==
    [url |-> url, current_depth |-> current_depth, urls |-> <<>>,
     hrefs |-> <<>>, at |-> "guard"]

\* the innermost call
Top == frames[Len(frames)]

\* the stack with its innermost call replaced
WithTop(f) == [frames EXCEPT ![Len(frames)] = f]

\* the outermost call: visited is None and becomes a new list
CrawlCall ==
    /\ pc = "crawl"
    /\ frames = <<>>
    /\ crawled = <<>>
    /\ pc' = "crawling"
    /\ crawl_visited' = <<>>
    /\ frames' = <<Frame(StartUrl, 0)>>
    /\ UNCHANGED <<pages, max_depth, crawled, knowledgeVars>>
    /\ UNCHANGED <<nodes, edges, llm_integration, start_node_id, message,
                   conversation_history, context, ctx_arg, current_node_id,
                   response, visited_nodes, result, iterations, processed,
                   port_calls>>

\* the guard of a call, and the bookkeeping of one that passes it
CrawlGuard ==
    /\ frames # <<>>
    /\ Top.at = "guard"
    /\ IF Top.current_depth > max_depth \/ Seen(Top.url, crawl_visited)
       THEN /\ frames' = WithTop([Top EXCEPT !.urls = <<>>, !.at = "return"])
            /\ UNCHANGED crawl_visited
       ELSE /\ crawl_visited' = Append(crawl_visited, Top.url)
            /\ frames' = WithTop([Top EXCEPT !.urls = <<Top.url>>,
                                            !.at = "get"])
    /\ UNCHANGED <<pages, max_depth, crawled, engineVars, knowledgeVars>>

\* requests.get, the status test and the depth test before the loop
CrawlGet ==
    /\ frames # <<>>
    /\ Top.at = "get"
    /\ LET page == pages[Top.url]
       IN  frames' =
             WithTop(IF Top.url \notin DOMAIN pages \/ page.raises
                     THEN [Top EXCEPT !.at = "return"]
                     ELSE IF page.status_code # 200
                     THEN [Top EXCEPT !.at = "return"]
                     ELSE IF Top.current_depth < max_depth
                     THEN [Top EXCEPT !.hrefs = page.hrefs, !.at = "links"]
                     ELSE [Top EXCEPT !.at = "return"])
    /\ UNCHANGED <<pages, max_depth, crawl_visited, crawled, engineVars,
                   knowledgeVars>>

\* one turn of the loop over the links of the page
CrawlLink ==
    /\ frames # <<>>
    /\ Top.at = "links"
    /\ IF Top.hrefs = <<>>
       THEN frames' = WithTop([Top EXCEPT !.at = "return"])
       ELSE LET raw == Head(Top.hrefs)
                rest == [Top EXCEPT !.hrefs = Tail(Top.hrefs)]
                href == Resolve(raw, BaseUrl)
            IN  IF StartsWith(raw, SkippedPrefixes)
                THEN frames' = WithTop(rest)
                ELSE IF Netloc(href) # Netloc(BaseUrl)
                THEN frames' = WithTop(rest)
                ELSE IF ~Seen(href, crawl_visited)
                THEN frames' = Append(WithTop(rest),
                                      Frame(href, Top.current_depth + 1))
                ELSE frames' = WithTop(rest)
    /\ UNCHANGED <<pages, max_depth, crawl_visited, crawled, engineVars,
                   knowledgeVars>>

\* a call returns its urls: to the caller, which extends its own list with
\* them, or out of the outermost call
CrawlReturn ==
    /\ frames # <<>>
    /\ Top.at = "return"
    /\ IF Len(frames) = 1
       THEN /\ crawled' = Some(Top.urls)
            /\ frames' = <<>>
            /\ pc' = "crawled"
       ELSE LET caller == frames[Len(frames) - 1]
            IN  /\ frames' = [SubSeq(frames, 1, Len(frames) - 1)
                                EXCEPT ![Len(frames) - 1] =
                                  [caller EXCEPT !.urls = caller.urls \o Top.urls]]
                /\ UNCHANGED <<crawled, pc>>
    /\ UNCHANGED <<pages, max_depth, crawl_visited, knowledgeVars>>
    /\ UNCHANGED <<nodes, edges, llm_integration, start_node_id, message,
                   conversation_history, context, ctx_arg, current_node_id,
                   response, visited_nodes, result, iterations, processed,
                   port_calls>>

NextCrawl ==
    \/ CrawlCall
    \/ CrawlGuard
    \/ CrawlGet
    \/ CrawlLink
    \/ CrawlReturn

SpecCrawl == InitCrawl /\ [][NextCrawl]_vars

\* the crawl is one synchronous call: a step that can be taken is taken
FairSpecCrawl == SpecCrawl /\ WF_vars(NextCrawl)

\* the URLs the page at u links to
LinkTargets(u) ==
    IF u \in DOMAIN pages
    THEN {Resolve(pages[u].hrefs[i], BaseUrl) :
            i \in {j \in 1..Len(pages[u].hrefs) :
                     ~StartsWith(pages[u].hrefs[j], SkippedPrefixes)}}
    ELSE {}

\* the URLs reached from the start URL by following at most d links
RECURSIVE Within(_)
Within(d) ==
    IF d <= 0 THEN {StartUrl}
    ELSE LET near == Within(d - 1)
         IN  near \cup UNION {LinkTargets(u) : u \in near}

NoDuplicates(s) == \A i, j \in 1..Len(s) : s[i] = s[j] => i = j

\* C31: on every finite site, pages that link to each other in a cycle
\* included, the outermost call of crawl_website returns, and the list it
\* returns holds each URL at most once and only URLs reached from the
\* start URL by following at most max_depth links
C31_CrawlTerminatesSound ==
    /\ <>(crawled # <<>>)
    /\ [](crawled # <<>> =>
            /\ NoDuplicates(crawled[1])
            /\ \A i \in 1..Len(crawled[1]) : crawled[1][i] \in Within(max_depth))

\* the start page and another page link to each other, and the crawl
\* returned both, each once
C31_Witness ==
    /\ crawled # <<>>
    /\ max_depth = MaxDepth
    /\ crawled[1] = <<StartUrl, UrlPool[2]>>
    /\ UrlPool[2] \in LinkTargets(StartUrl)
    /\ StartUrl \in LinkTargets(UrlPool[2])

----------------------------------------------------------------------------
(* upload_file and add_website of backend/app.py. Both handlers are         *)
(* coroutines that never await, so the server runs them one after another.  *)
(* The database is taken to work: a commit writes the object's row. What    *)
(* process_document and process_website do is left open: either completes   *)
(* or raises an exception of a class derived from Exception.                *)

MaxRequests == 2

AllowedExtensions == {".pdf", ".docx", ".txt", ".csv"}

\* str.lower on the extensions of the model
ExtLower(ext) == IF ext = ".PDF" THEN ".pdf" ELSE ext

\* the extension of the uploaded file's name, "" if it has none
Extensions == {".pdf", ".PDF", ".csv", ".exe", ""}

\* source.url: None, empty, or an address
Urls == {<<>>, <<"">>, <<"s.example">>}

\* the requests the two endpoints may receive
Requests ==
    {[endpoint |-> "upload_file", bot_found |-> b, ext |-> e,
      source_type |-> "file", url |-> <<>>, processing |-> "none",
      at |-> "check"] : b \in BOOLEAN, e \in Extensions}
    \cup {[endpoint |-> "add_website", bot_found |-> b, ext |-> "",
           source_type |-> t, url |-> u, processing |-> "none",
           at |-> "check"] : b \in BOOLEAN, t \in {"website", "file"},
                             u \in Urls}

\* how the processing of a document or of a website may end
ProcessOutcomes == {"completed", "ValueError", "ConnectionError"}

CatchesValueErrorOnly(error) == error = "ValueError"

\* except Exception
Catches(error) == error \in {"ValueError", "ConnectionError"}

\* db.commit() with the object obj in the session
Commit(table, obj) ==
    IF \E i \in 1..Len(table) : table[i].id = obj.id
    THEN [table EXCEPT ![CHOOSE i \in 1..Len(table) : table[i].id = obj.id] = obj]
    ELSE Append(table, obj)

InitKnowledge ==
    /\ NoRequests
    /\ NoCrawl
    /\ nodes = <<>>
    /\ edges = <<>>
    /\ llm_integration = "none"
    /\ start_node_id = None
    /\ message = <<>>
    /\ conversation_history = <<>>
    /\ ctx_arg = <<>>
    /\ context = <<>>
    /\ pc = "serving"
    /\ current_node_id = None
    /\ response = <<>>
    /\ visited_nodes = {}
    /\ result = <<>>
    /\ iterations = 0
    /\ processed = <<>>
    /\ port_calls = <<>>

\* the request ends with an HTTP error
HttpError(status_code) ==
    /\ replies' = Append(replies, [endpoint |-> request[1].endpoint,
                                   kind |-> "http_error",
                                   status_code |-> status_code])
    /\ request' = <<>>

\* a request reaches one of the two endpoints
Receive ==
    /\ request = <<>>
    /\ Len(replies) < MaxRequests
    /\ \E r \in Requests : request' = Some(r)
    /\ UNCHANGED <<knowledge_sources, db_source, replies, crawlVars, engineVars>>

\* upload_file up to the saving of the file
UploadFileCheck ==
    /\ request # <<>>
    /\ request[1].endpoint = "upload_file"
    /\ request[1].at = "check"
    /\ IF ~request[1].bot_found
       THEN HttpError(404)
       ELSE IF ExtLower(request[1].ext) \notin AllowedExtensions
       THEN HttpError(400)
       ELSE /\ request' = Some([request[1] EXCEPT !.at = "create"])
            /\ UNCHANGED replies
    /\ UNCHANGED <<knowledge_sources, db_source, crawlVars, engineVars>>

\* add_website up to the creation of the source
AddWebsiteCheck ==
    /\ request # <<>>
    /\ request[1].endpoint = "add_website"
    /\ request[1].at = "check"
    /\ IF ~request[1].bot_found
       THEN HttpError(404)
       ELSE IF request[1].source_type # "website"
               \/ request[1].url = <<>> \/ request[1].url = <<"">>
       THEN HttpError(400)
       ELSE /\ request' = Some([request[1] EXCEPT !.at = "create"])
            /\ UNCHANGED replies
    /\ UNCHANGED <<knowledge_sources, db_source, crawlVars, engineVars>>

\* the source is created under a new id and committed
CreateSource ==
    /\ request # <<>>
    /\ request[1].at = "create"
    /\ LET obj == [id |-> Len(knowledge_sources) + 1,
                   source_type |-> IF request[1].endpoint = "upload_file"
                                   THEN "file" ELSE "website",
                   status |-> "processing"]
       IN  /\ db_source' = Some(obj)
           /\ knowledge_sources' = Commit(knowledge_sources, obj)
    /\ request' = Some([request[1] EXCEPT !.at = "process"])
    /\ UNCHANGED <<replies, crawlVars, engineVars>>

\* the try statement around process_document or process_website
ProcessSource ==
    /\ request # <<>>
    /\ request[1].at = "process"
    /\ \E outcome \in ProcessOutcomes :
         IF outcome = "completed"
         THEN LET obj == [db_source[1] EXCEPT !.status = "ready"]
              IN  /\ db_source' = Some(obj)
                  /\ knowledge_sources' = Commit(knowledge_sources, obj)
                  /\ request' = Some([request[1] EXCEPT !.at = "return",
                                                       !.processing = outcome])
                  /\ UNCHANGED replies
         ELSE IF Catches(outcome)
         THEN LET obj == [db_source[1] EXCEPT !.status = "error"]
              IN  /\ db_source' = Some(obj)
                  /\ knowledge_sources' = Commit(knowledge_sources, obj)
                  /\ request' = Some([request[1] EXCEPT !.at = "return",
                                                       !.processing = outcome])
                  /\ UNCHANGED replies
         ELSE /\ replies' = Append(replies,
                                   [endpoint |-> request[1].endpoint,
                                    kind |-> "exception", error |-> outcome])
              /\ request' = <<>>
              /\ db_source' = <<>>
              /\ UNCHANGED knowledge_sources
    /\ UNCHANGED <<crawlVars, engineVars>>

\* return db_source
ReturnSource ==
    /\ request # <<>>
    /\ request[1].at = "return"
    /\ replies' = Append(replies, [endpoint |-> request[1].endpoint,
                                   kind |-> "source",
                                   id |-> db_source[1].id,
                                   status |-> db_source[1].status,
                                   processing |-> request[1].processing])
    /\ request' = <<>>
    /\ db_source' = <<>>
    /\ UNCHANGED <<knowledge_sources, crawlVars, engineVars>>

\* the steps of a handler
ServeRequest ==
    \/ UploadFileCheck
    \/ AddWebsiteCheck
    \/ CreateSource
    \/ ProcessSource
    \/ ReturnSource

NextKnowledge == Receive \/ ServeRequest

SpecKnowledge == InitKnowledge /\ [][NextKnowledge]_vars

\* a handler that was entered runs to its end
FairSpecKnowledge == SpecKnowledge /\ WF_vars(ServeRequest)

\* the committed rows with a given id
RowsOf(id) ==
    {knowledge_sources[i] : i \in {j \in 1..Len(knowledge_sources) :
                                     knowledge_sources[j].id = id}}

\* C32: a knowledge source created by upload_file or add_website is stored
\* with status "processing"; when the request returns its stored status is
\* "ready" if processing completed without raising and "error" if it
\* raised; no request ends with a processing error; and a stored status
\* "processing" does not last
C32_SourceStatusSettled ==
    /\ [][Len(knowledge_sources') > Len(knowledge_sources)
          => knowledge_sources'[Len(knowledge_sources')].status = "processing"]_vars
    /\ [](\A i \in 1..Len(replies) :
            /\ replies[i].kind # "exception"
            /\ replies[i].kind = "source" =>
                 /\ RowsOf(replies[i].id) # {}
                 /\ \A row \in RowsOf(replies[i].id) :
                      /\ row.status = replies[i].status
                      /\ row.status =
                           IF replies[i].processing = "completed"
                           THEN "ready" ELSE "error")
    /\ \A k \in 1..MaxRequests :
         (Len(knowledge_sources) >= k /\ knowledge_sources[k].status = "processing")
           ~> (Len(knowledge_sources) >= k
               /\ knowledge_sources[k].status \in {"ready", "error"})

\* an uploaded file was processed to the end and a website's processing
\* raised: the first source is stored ready, the second error
C32_Witness ==
    /\ Len(replies) = 2
    /\ replies[1].kind = "source" /\ replies[1].endpoint = "upload_file"
    /\ replies[1].processing = "completed"
    /\ replies[2].kind = "source" /\ replies[2].endpoint = "add_website"
    /\ replies[2].processing = "ConnectionError"
    /\ knowledge_sources[1].status = "ready"
    /\ knowledge_sources[2].status = "error"

====
